---- MODULE Spec2Model ----
(***************************************************************************)
(* Model of the GEMS Agent chat client (src/src/App.tsx): the React        *)
(* component App with its state hooks, the credential callback, sign-out   *)
(* and the asynchronous sendMessage handler.                               *)
(*                                                                         *)
(* Texts are sequences of one-character strings, so that trim(), endsWith  *)
(* and JSON escaping are computed character by character.                  *)
(*                                                                         *)
(* A value that may be null is a sequence of length at most one:           *)
(* Null is <<>> and Some(v) is <<v>>.                                      *)
(*                                                                         *)
(* The browser runs every handler and every promise continuation to        *)
(* completion, and React commits the state updates of a handler before the *)
(* next event is dispatched; an action of the model is therefore one       *)
(* handler invocation, or one continuation of sendMessage between two      *)
(* awaits.                                                                 *)
(*                                                                         *)
(* The module holds two specifications over the same variables.  Spec and  *)
(* FairSpec are the chat controller with the credential callback and       *)
(* sign-out: the provider is an environment that may deliver a credential  *)
(* at any time.  AuthSpec is the authenticator: the sign-in effect with    *)
(* its latch, its poll and deadline timers, the loading of the provider    *)
(* script, the credential callback once it is registered, and sign-out.    *)
(***************************************************************************)
EXTENDS Naturals, Sequences, FiniteSets

VARIABLES
    messages,      \* useState<Message[]>([])
    inputValue,    \* useState('')
    isLoading,     \* useState(false)
    error,         \* useState<string | null>(null), the transport error
    authError,     \* useState<string | null>(null)
    user,          \* useState<UserProfile | null>(null)
    clientId,      \* GOOGLE_CLIENT_ID, fixed when the bundle is built
    chatApiUrl,    \* CHAT_API_URL, fixed when the bundle is built
    google,        \* window.google?.accounts?.id is there: the script has loaded
    initialized,   \* isGoogleSignInInitialized.current, the latch
    container,     \* loginButtonRef.current: "none" (not rendered), "empty", "button"
    effect,        \* the current run of the sign-in effect and its timers
    registrations, \* number of times google.accounts.id.initialize has returned
    renderCalls,   \* number of times google.accounts.id.renderButton was called
    initFailures,  \* number of times the catch block of initGoogleSignIn has run
    effectRuns,    \* history: number of runs of the sign-in effect
    calls,         \* the suspended invocations of sendMessage, oldest first
    fetchCalls,    \* number of times fetch() has been called
    acceptedSends, \* history: number of sends made with non-blank text while idle
    lastOp         \* history: the handler or continuation that ran last

vars == <<messages, inputValue, isLoading, error, authError, user, clientId,
          chatApiUrl, google, initialized, container, effect, registrations, renderCalls,
          initFailures, effectRuns, calls, fetchCalls, acceptedSends, lastOp>>

----------------------------------------------------------------------------
(* Bounds of the model *)

MaxMessages == 3
MaxSends == 2
MaxCalls == 2
MaxEffectRuns == 2

----------------------------------------------------------------------------
(* Values *)

Null == <<>>
Some(v) == <<v>>

\* A JavaScript value as far as the handlers look at it.
Undefined == [t |-> "undefined", v |-> <<>>]
JsNumber == [t |-> "number", v |-> <<>>]
Str(s) == [t |-> "string", v |-> s]

\* A text is a sequence of characters (UTF-16 code units), each a string.
\* A character that cannot be written in a string here is named by its
\* code point: "U+000B" is the vertical tab.

\* What String.prototype.trim removes: the WhiteSpace and LineTerminator
\* code points of ECMAScript.
WhiteSpace ==
    { "\t", "\n", "U+000B", "\f", "\r", " ", "U+00A0", "U+1680",
      "U+2000", "U+2001", "U+2002", "U+2003", "U+2004", "U+2005", "U+2006",
      "U+2007", "U+2008", "U+2009", "U+200A", "U+2028", "U+2029", "U+202F",
      "U+205F", "U+3000", "U+FEFF" }

RECURSIVE TrimStart(_)
TrimStart(s) ==
    IF s = <<>> THEN s
    ELSE IF Head(s) \in WhiteSpace THEN TrimStart(Tail(s)) ELSE s

RECURSIVE TrimEnd(_)
TrimEnd(s) ==
    IF s = <<>> THEN s
    ELSE IF s[Len(s)] \in WhiteSpace THEN TrimEnd(SubSeq(s, 1, Len(s) - 1)) ELSE s

\* String.prototype.trim
Trim(s) == TrimEnd(TrimStart(s))

\* String.prototype.endsWith
EndsWith(s, suffix) ==
    /\ Len(s) >= Len(suffix)
    /\ SubSeq(s, Len(s) - Len(suffix) + 1, Len(s)) = suffix

EMAIL_DOMAIN == <<"@", "r", "a", "n", "d", "s", "t", "a", "d", ".", "n", "o">>

GenericError == "Could not get response from GEMS Agent. Please try again."
DomainError == "Only employees with @randstad.no accounts can use GEMS Agent."
SignInFailedError == "Google sign-in failed, please try again."
ConfigError == "Google Client ID configuration error"
InitFailedError == "Could not load Google sign-in. Please refresh the page."
LoadTimeoutError ==
    "Could not load Google sign-in. Check your internet connection or refresh the page."

\* String.prototype.includes
Includes(s, sub) ==
    \E i \in 1..(Len(s) + 1) :
        i + Len(sub) - 1 <= Len(s) /\ SubSeq(s, i, i + Len(sub) - 1) = sub

\* The placeholder config.ts falls back to, and the marks App.tsx looks for.
DEFAULT_GOOGLE_CLIENT_ID == <<"Y", "O", "U", "R", "_", "G", "O", "O", "G", "L", "E", "_", "O", "A", "U", "T", "H", "_", "C", "L", "I", "E", "N", "T", "_", "I", "D">>
PlaceholderMark == <<"Y", "O", "U", "R", "_", "G", "O", "O", "G", "L", "E">>
ClientIdSuffix == <<".", "a", "p", "p", "s", ".", "g", "o", "o", "g", "l", "e", "u", "s", "e", "r", "c", "o", "n", "t", "e", "n", "t", ".", "c", "o", "m">>

\* config.ts.  env is import.meta.env of the build: DEV and MODE are set by
\* the bundler, a VITE_ variable is a string or is not defined.
LocalChatUrl == <<"h", "t", "t", "p", ":", "/", "/", "l", "o", "c", "a", "l", "h", "o", "s", "t", ":", "8", "0", "8", "0", "/", "c", "h", "a", "t">>
RelativeChatUrl == <<"/", "c", "h", "a", "t">>

isDevelopment(env) == env.DEV \/ env.MODE = "development"

DEFAULT_CHAT_URL(env) == IF isDevelopment(env) THEN LocalChatUrl ELSE RelativeChatUrl

\* value?.toString().trim() || fallback
TrimmedOr(value, fallback) ==
    IF value = Undefined THEN fallback
    ELSE IF Trim(value.v) = <<>> THEN fallback
    ELSE Trim(value.v)

CHAT_API_URL(env) == TrimmedOr(env.VITE_CHAT_API_URL, DEFAULT_CHAT_URL(env))

GOOGLE_CLIENT_ID(env) == TrimmedOr(env.VITE_GOOGLE_CLIENT_ID, DEFAULT_GOOGLE_CLIENT_ID)

----------------------------------------------------------------------------
(* Inputs *)

Hi == <<"H", "i">>
Hello == <<"H", "e", "l", "l", "o">>

\* What the user can have typed into the textarea.
InputValues ==
    { <<>>, <<"\f">>, Hi, <<"\r", "H", "i", "U+00A0">>,
      <<" ", "H", "\r", "U+000B", "i", "\n">>,
      <<"U+D83D", "U+DE00", "U+DC00", "U+D801", "x">> }

\* The reply field of a JSON response body.
ReplyValues ==
    { Undefined, JsNumber, Str(<<>>), Str(<<"\r", "\n">>), Str(Hello),
      Str(<<"\n", "H", "e", "l", "l", "o", "\r", "\n">>) }

\* What `await response.json()` yields: a rejection (the body is not JSON),
\* the JSON value null, or an object with or without a reply field.
JsonOutcomes ==
    { [kind |-> "rejected", reply |-> Undefined],
      [kind |-> "null", reply |-> Undefined] }
    \cup { [kind |-> "object", reply |-> r] : r \in ReplyValues }

\* What `await response.text()` yields for an error body.
TextOutcomes == { "rejected", "empty", "detail" }

\* What `await fetch()` yields: a rejection (network failure, CORS, DNS) or
\* a response with a status; response.ok is status in 200..299.
Statuses == { 200, 404, 500 }
FetchOutcomes ==
    { [kind |-> "rejected", status |-> 0] }
    \cup { [kind |-> "response", status |-> st] : st \in Statuses }

ResponseOk(status) == status >= 200 /\ status <= 299

Ann == <<"a", "n", "n">> \o EMAIL_DOMAIN
Bob == <<"b", "o", "b">> \o EMAIL_DOMAIN
Eve == <<"e", "v", "e", "@", "g", "m", "a", "i", "l", ".", "c", "o", "m">>
AnnEvil == Ann \o <<".", "e", "v", "i", "l">>

\* A credential: the number of dot-separated segments of the token and the
\* claims its payload segment decodes to (Null when it does not decode).
Claims(email, name, picture) == [email |-> email, name |-> name, picture |-> picture]

Credentials ==
    { [segments |-> 1, payload |-> Null],
      [segments |-> 3, payload |-> Null],
      [segments |-> 3, payload |-> Some(Claims(Undefined, Str(<<"X">>), Undefined))],
      [segments |-> 3, payload |-> Some(Claims(Str(<<>>), Undefined, Undefined))],
      [segments |-> 3, payload |-> Some(Claims(JsNumber, Undefined, Undefined))],
      [segments |-> 3, payload |-> Some(Claims(Str(Eve), Str(<<"E">>), Undefined))],
      [segments |-> 3, payload |-> Some(Claims(Str(AnnEvil), Undefined, Undefined))],
      [segments |-> 3, payload |-> Some(Claims(Str(Ann), Str(<<"A">>), Str(<<"p">>)))],
      [segments |-> 3, payload |-> Some(Claims(Str(Bob), Undefined, Undefined))] }

\* The client ids a bundle can be built with: none set, one that is not a
\* Google client id, and a Google client id.
OtherClientId == <<"y", "o", "u", "r", "-", "g", "o", "o", "g", "l", "e", "-", "c", "l", "i", "e", "n", "t", "-", "i", "d">>
GoogleClientId == <<"1">> \o ClientIdSuffix

\* The endpoint of a deployment of the backend on its own.
RemoteChatUrl == <<"h", "t", "t", "p", "s", ":", "/", "/", "g", "e", "m", "s", "-", "a", "g", "e", "n", "t", "-", "a", "p", "i", "-", "x", "x", "x", "x", "x", "-", "n", "w", ".", "a", ".", "r", "u", "n", ".", "a", "p", "p", "/", "c", "h", "a", "t">>

\* The builds: the Cloud Run bundle, the development server, a bundle
\* pointed at a remote endpoint (the variables padded with white space), a
\* bundle built in mode development with a blank VITE_CHAT_API_URL, a bundle
\* without a client id and a bundle with a client id Google did not issue.
Builds ==
    { [VITE_CHAT_API_URL |-> Undefined, VITE_GOOGLE_CLIENT_ID |-> Str(GoogleClientId),
       DEV |-> FALSE, MODE |-> "production"],
      [VITE_CHAT_API_URL |-> Undefined, VITE_GOOGLE_CLIENT_ID |-> Str(GoogleClientId),
       DEV |-> TRUE, MODE |-> "development"],
      [VITE_CHAT_API_URL |-> Str(<<" ">> \o RemoteChatUrl \o <<" ">>),
       VITE_GOOGLE_CLIENT_ID |-> Str(<<" ">> \o GoogleClientId \o <<"\n">>),
       DEV |-> FALSE, MODE |-> "production"],
      [VITE_CHAT_API_URL |-> Str(<<" ", " ">>), VITE_GOOGLE_CLIENT_ID |-> Str(GoogleClientId),
       DEV |-> FALSE, MODE |-> "development"],
      [VITE_CHAT_API_URL |-> Undefined, VITE_GOOGLE_CLIENT_ID |-> Undefined,
       DEV |-> FALSE, MODE |-> "production"],
      [VITE_CHAT_API_URL |-> Undefined, VITE_GOOGLE_CLIENT_ID |-> Str(OtherClientId),
       DEV |-> FALSE, MODE |-> "production"] }

\* What the provider does when initGoogleSignIn calls it: initialize
\* returns or throws; renderButton puts its markup into the container, or
\* throws before or after having done so.
ProviderOutcomes ==
    [ initialize : { "returns", "throws" },
      renderButton : { "rendered", "throwsBefore", "throwsAfter" } ]

\* Outcome of the provider's revoke(): it returns (the provider reports the
\* result to the callback later, if ever) or it throws.
RevokeOutcomes == { "returned", "throws" }

----------------------------------------------------------------------------
(* The state of the component as one record, and its installation *)

State ==
    [ messages |-> messages, inputValue |-> inputValue, isLoading |-> isLoading,
      error |-> error, authError |-> authError, user |-> user,
      clientId |-> clientId, chatApiUrl |-> chatApiUrl, google |-> google, initialized |-> initialized,
      container |-> container, effect |-> effect,
      registrations |-> registrations, renderCalls |-> renderCalls,
      initFailures |-> initFailures,
      calls |-> calls, fetchCalls |-> fetchCalls ]

\* isAuthorized: Boolean(user).
isAuthorized(s) == s.user # Null

\* Variant of Render that keeps the sign-in card next to the chat.
Render_KeepsCard(s) ==
    [s EXCEPT !.container = IF @ = "none" THEN "empty" ELSE @]

\* The render that follows a handler: the sign-in card with the container
\* of the button is there exactly while no session exists (lines 338-352),
\* and a container that is rendered anew is empty.
Render(s) ==
    [s EXCEPT !.container = IF s.user # Null THEN "none"
                            ELSE IF @ = "none" THEN "empty" ELSE @]

\* isClientIdConfigured (GOOGLE_CLIENT_ID is never empty: config.ts falls
\* back to the placeholder).
isClientIdConfigured(id) == ~Includes(id, PlaceholderMark)

\* The sign-in card carries the notice 'Google Client ID is not configured.'
\* (lines 343-345).
NotConfiguredNotice(s) == s.user = Null /\ ~isClientIdConfigured(s.clientId)

Commit(s) ==
    /\ clientId' = s.clientId
    /\ chatApiUrl' = s.chatApiUrl
    /\ google' = s.google
    /\ initialized' = s.initialized
    /\ container' = Render(s).container
    /\ effect' = s.effect
    /\ registrations' = s.registrations
    /\ renderCalls' = s.renderCalls
    /\ initFailures' = s.initFailures
    /\ messages' = s.messages
    /\ inputValue' = s.inputValue
    /\ isLoading' = s.isLoading
    /\ error' = s.error
    /\ authError' = s.authError
    /\ user' = s.user
    /\ calls' = s.calls
    /\ fetchCalls' = s.fetchCalls

----------------------------------------------------------------------------
(* Helpers of the handlers *)

\* generateId: crypto.randomUUID() yields a token that no message of the
\* list carries; the model takes the first natural number not in use.
generateId(msgs) ==
    CHOOSE n \in 1..(Len(msgs) + 1) :
        /\ \A i \in 1..Len(msgs) : msgs[i].id # n
        /\ \A m \in 1..(Len(msgs) + 1) :
              (\A i \in 1..Len(msgs) : msgs[i].id # m) => n <= m

Message(id, role, text) == [id |-> id, role |-> role, text |-> text]

\* The characters below U+0020, in the order of their code points.
ControlChars ==
    << "U+0000", "U+0001", "U+0002", "U+0003", "U+0004", "U+0005", "U+0006",
       "U+0007", "U+0008", "\t", "\n", "U+000B", "\f", "\r", "U+000E",
       "U+000F", "U+0010", "U+0011", "U+0012", "U+0013", "U+0014", "U+0015",
       "U+0016", "U+0017", "U+0018", "U+0019", "U+001A", "U+001B", "U+001C",
       "U+001D", "U+001E", "U+001F" >>

HexDigits ==
    << "0", "1", "2", "3", "4", "5", "6", "7", "8", "9", "a", "b", "c", "d",
       "e", "f" >>

IsControl(c) == \E i \in 1..Len(ControlChars) : ControlChars[i] = c

\* The surrogate code units U+D800..U+DFFF, each under the name it has in
\* a text, by code: SurrogateUnits[55297] = "U+D801".
UpperHexDigits ==
    << "0", "1", "2", "3", "4", "5", "6", "7", "8", "9", "A", "B", "C", "D",
       "E", "F" >>
SurrogateUnits ==
    [code \in 55296..57343 |->
        "U+" \o UpperHexDigits[(code \div 4096) + 1]
             \o UpperHexDigits[((code \div 256) % 16) + 1]
             \o UpperHexDigits[((code \div 16) % 16) + 1]
             \o UpperHexDigits[(code % 16) + 1]]

\* U+D800..U+DBFF open a surrogate pair, U+DC00..U+DFFF close one.
LeadingSurrogates == { SurrogateUnits[code] : code \in 55296..56319 }
TrailingSurrogates == { SurrogateUnits[code] : code \in 56320..57343 }
IsSurrogate(c) == c \in LeadingSurrogates \/ c \in TrailingSurrogates

\* The code of a character below U+0020 or of a surrogate code unit.
CodeOf(c) ==
    IF IsControl(c)
    THEN (CHOOSE i \in 1..Len(ControlChars) : ControlChars[i] = c) - 1
    ELSE CHOOSE code \in DOMAIN SurrogateUnits : SurrogateUnits[code] = c

\* \uXXXX, four hexadecimal digits in lower case.
UnicodeEscape(code) ==
    <<"\\", "u", HexDigits[(code \div 4096) + 1],
                 HexDigits[((code \div 256) % 16) + 1],
                 HexDigits[((code \div 16) % 16) + 1],
                 HexDigits[(code % 16) + 1]>>

\* JSON.stringify of one character inside a string literal, a surrogate
\* code unit being one that is not part of a pair.
EscapeChar(c) ==
    IF c = "U+0008" THEN <<"\\", "b">>
    ELSE IF c = "\t" THEN <<"\\", "t">>
    ELSE IF c = "\n" THEN <<"\\", "n">>
    ELSE IF c = "\f" THEN <<"\\", "f">>
    ELSE IF c = "\r" THEN <<"\\", "r">>
    ELSE IF c = "\"" THEN <<"\\", "\"">>
    ELSE IF c = "\\" THEN <<"\\", "\\">>
    ELSE IF IsControl(c) \/ IsSurrogate(c)
    THEN UnicodeEscape(CodeOf(c))
    ELSE <<c>>

\* JSON.stringify of the characters of a string: code point by code point,
\* so a leading surrogate followed by a trailing one is one character and
\* is written as it is; any other surrogate stands alone and is escaped.
RECURSIVE EscapeAll(_)
EscapeAll(s) ==
    IF s = <<>> THEN <<>>
    ELSE IF Len(s) >= 2 /\ s[1] \in LeadingSurrogates /\ s[2] \in TrailingSurrogates
    THEN <<s[1], s[2]>> \o EscapeAll(Tail(Tail(s)))
    ELSE EscapeChar(Head(s)) \o EscapeAll(Tail(s))

\* JSON.stringify({ message: trimmed })
JsonStringifyMessage(trimmed) ==
    <<"{", "\"", "m", "e", "s", "s", "a", "g", "e", "\"", ":", "\"">>
        \o EscapeAll(trimmed) \o <<"\"", "}">>

\* The request handed to fetch().
Request(s, trimmed) ==
    [url |-> s.chatApiUrl, method |-> "POST", body |-> JsonStringifyMessage(trimmed)]

RemoveAt(seq, k) == SubSeq(seq, 1, k - 1) \o SubSeq(seq, k + 1, Len(seq))

\* Variant of CatchBlock that shows the detail of the exception to the user.
CatchBlock_ShowsDetail(s, err) == [s EXCEPT !.error = Some(err.name)]

\* catch (err) of sendMessage: the detail of err goes to the console only.
CatchBlock(s, err) == [s EXCEPT !.error = Some(GenericError)]

\* Variant of FinallyBlock that forgets to lower the flag.
FinallyBlock_KeepsFlag(s, k) == [s EXCEPT !.calls = RemoveAt(@, k)]

\* finally of sendMessage; the invocation k has then run to its end.
FinallyBlock(s, k) == [s EXCEPT !.isLoading = FALSE, !.calls = RemoveAt(@, k)]

----------------------------------------------------------------------------
(* The handlers, as functions from the state to the next state *)

\* onChange of the textarea
setInputValue(s, v) == [s EXCEPT !.inputValue = v]

\* The state an accepted send leaves, given what it does to error.
Accepted(s, trimmed, err) ==
    LET newUserMessage == Message(generateId(s.messages), "user", trimmed)
    IN  [s EXCEPT
            !.messages = Append(@, newUserMessage),
            !.inputValue = <<>>,
            !.isLoading = TRUE,
            !.error = err,
            !.fetchCalls = @ + 1,
            !.calls = Append(@, [pc |-> "fetch",
                                 request |-> Request(s, trimmed),
                                 status |-> 0,
                                 appended |-> Append(s.messages, newUserMessage),
                                 crossed |-> FALSE])]

\* Variant of sendMessage without the isLoading test.
sendMessage_NoFlightCheck(s) ==
    IF Trim(s.inputValue) = <<>> THEN s ELSE Accepted(s, Trim(s.inputValue), Null)

\* Variant of sendMessage that tests the raw input instead of the trimmed one.
sendMessage_NoTrim(s) ==
    IF s.inputValue = <<>> \/ s.isLoading THEN s ELSE Accepted(s, Trim(s.inputValue), Null)

\* Variant of sendMessage that leaves a previous error in place.
sendMessage_KeepsError(s) ==
    IF Trim(s.inputValue) = <<>> \/ s.isLoading THEN s
    ELSE Accepted(s, Trim(s.inputValue), s.error)

\* sendMessage up to its first await.  The fields appended and crossed of
\* the suspended invocation are history: the message list right after the
\* user message was appended, and whether the history has been cleared by a
\* sign-out since.
sendMessage(s) ==
    LET trimmed == Trim(s.inputValue)
        newUserMessage == Message(generateId(s.messages), "user", trimmed)
    IN  IF trimmed = <<>> \/ s.isLoading
        THEN s
        ELSE [s EXCEPT
                !.messages = Append(@, newUserMessage),
                !.inputValue = <<>>,
                !.isLoading = TRUE,
                !.error = Null,
                !.fetchCalls = @ + 1,
                !.calls = Append(@, [pc |-> "fetch",
                                     request |-> Request(s, trimmed),
                                     status |-> 0,
                                     appended |-> Append(s.messages, newUserMessage),
                                     crossed |-> FALSE])]

\* Variant of FetchSettled that issues the request again after a rejection.
FetchSettled_Retry(s, k, o) ==
    IF o.kind = "rejected"
    THEN [s EXCEPT !.fetchCalls = @ + 1]
    ELSE IF ~ResponseOk(o.status)
    THEN [s EXCEPT !.calls[k].pc = "text", !.calls[k].status = o.status]
    ELSE [s EXCEPT !.calls[k].pc = "json", !.calls[k].status = o.status]

\* sendMessage from the settlement of fetch() to the next await or the end.
FetchSettled(s, k, o) ==
    IF o.kind = "rejected"
    THEN FinallyBlock(CatchBlock(s, [name |-> "TypeError", status |-> 0]), k)
    ELSE IF ~ResponseOk(o.status)
    THEN [s EXCEPT !.calls[k].pc = "text", !.calls[k].status = o.status]
    ELSE [s EXCEPT !.calls[k].pc = "json", !.calls[k].status = o.status]

\* Variant of TextSettled without the finally block.
TextSettled_NoFinally(s, k, o) ==
    [CatchBlock(s, [name |-> "Error", status |-> s.calls[k].status])
        EXCEPT !.calls = RemoveAt(@, k)]

\* Variant of TextSettled that shows the failure as an agent message.
TextSettled_ErrorBubble(s, k, o) ==
    FinallyBlock(
        [CatchBlock(s, [name |-> "Error", status |-> s.calls[k].status])
            EXCEPT !.messages = Append(@, Message(generateId(s.messages), "agent", <<"!">>))], k)

\* sendMessage from the settlement of response.text() to the end: it throws
\* whatever the error body was.
TextSettled(s, k, o) ==
    FinallyBlock(CatchBlock(s, [name |-> IF o = "rejected" THEN "TypeError" ELSE "Error",
                                status |-> s.calls[k].status]), k)

\* Variant of JsonSettled that shows a blank or absent reply as an empty
\* agent message.
JsonSettled_EmptyTurn(s, k, o) ==
    IF o.kind # "object" \/ o.reply.t = "number"
    THEN FinallyBlock(CatchBlock(s, [name |-> "TypeError", status |-> s.calls[k].status]), k)
    ELSE LET replyText == IF o.reply.t = "undefined" THEN <<>> ELSE Trim(o.reply.v)
         IN  FinallyBlock(
                 [s EXCEPT !.messages =
                     Append(@, Message(generateId(s.messages), "agent", replyText))], k)

\* Variant of JsonSettled that shows the reply as received, not trimmed.
JsonSettled_Untrimmed(s, k, o) ==
    IF o.kind # "object" \/ o.reply.t = "number"
    THEN FinallyBlock(CatchBlock(s, [name |-> "TypeError", status |-> s.calls[k].status]), k)
    ELSE IF o.reply.t = "undefined" \/ Trim(o.reply.v) = <<>>
    THEN FinallyBlock(CatchBlock(s, [name |-> "Error", status |-> s.calls[k].status]), k)
    ELSE FinallyBlock(
            [s EXCEPT !.messages =
                Append(@, Message(generateId(s.messages), "agent", o.reply.v))], k)

\* Variant of JsonSettled that shows the reply alone, dropping the history.
JsonSettled_Replaces(s, k, o) ==
    IF o.kind # "object" \/ o.reply.t = "number"
    THEN FinallyBlock(CatchBlock(s, [name |-> "TypeError", status |-> s.calls[k].status]), k)
    ELSE IF o.reply.t = "undefined" \/ Trim(o.reply.v) = <<>>
    THEN FinallyBlock(CatchBlock(s, [name |-> "Error", status |-> s.calls[k].status]), k)
    ELSE FinallyBlock(
            [s EXCEPT !.messages = <<Message(1, "agent", Trim(o.reply.v))>>], k)

\* sendMessage from the settlement of response.json() to the end.
JsonSettled(s, k, o) ==
    IF o.kind = "rejected"
    THEN FinallyBlock(CatchBlock(s, [name |-> "SyntaxError", status |-> s.calls[k].status]), k)
    ELSE IF o.kind = "null" \/ o.reply.t = "number"
    THEN \* data.reply of null, or reply.trim is not a function
         FinallyBlock(CatchBlock(s, [name |-> "TypeError", status |-> s.calls[k].status]), k)
    ELSE LET replyText == IF o.reply.t = "undefined" THEN <<>> ELSE Trim(o.reply.v)
         IN  IF replyText = <<>>
             THEN FinallyBlock(CatchBlock(s, [name |-> "Error", status |-> s.calls[k].status]), k)
             ELSE FinallyBlock(
                     [s EXCEPT !.messages =
                         Append(@, Message(generateId(s.messages), "agent", replyText))], k)

\* jwtDecode: throws unless the token has a payload segment that decodes.
JwtDecodes(credential) == credential.segments >= 2 /\ credential.payload # Null

\* The email claim as line 58 reads it ('' when absent); only for claims
\* that are absent or strings.
EmailOf(decoded) == IF decoded.email.t = "undefined" THEN <<>> ELSE decoded.email.v

\* The session lines 68-72 build from the decoded claims.
Profile(decoded) ==
    [name |-> IF decoded.name.t = "undefined" THEN Str(EmailOf(decoded)) ELSE decoded.name,
     email |-> EmailOf(decoded),
     picture |-> decoded.picture]

\* Variant of handleCredentialResponse that also clears the transport error
\* when it rejects a credential.
handleCredentialResponse_ClearsError(s, credential) ==
    IF ~JwtDecodes(credential) \/ credential.payload[1].email.t = "number"
    THEN [s EXCEPT !.authError = Some(SignInFailedError)]
    ELSE IF ~EndsWith(EmailOf(credential.payload[1]), EMAIL_DOMAIN)
    THEN [s EXCEPT !.user = Null, !.authError = Some(DomainError), !.error = Null]
    ELSE [s EXCEPT !.user = Some(Profile(credential.payload[1])), !.authError = Null]

\* Variant of handleCredentialResponse that keeps a rejection message when
\* it accepts a credential.
handleCredentialResponse_KeepsAuthError(s, credential) ==
    IF ~JwtDecodes(credential) \/ credential.payload[1].email.t = "number"
    THEN [s EXCEPT !.authError = Some(SignInFailedError)]
    ELSE IF ~EndsWith(EmailOf(credential.payload[1]), EMAIL_DOMAIN)
    THEN [s EXCEPT !.user = Null, !.authError = Some(DomainError)]
    ELSE [s EXCEPT !.user = Some(Profile(credential.payload[1]))]

\* Variant of handleCredentialResponse without the try block: a token that
\* does not decode leaves the handler by the exception.
handleCredentialResponse_NoCatch(s, credential) ==
    IF ~JwtDecodes(credential) \/ credential.payload[1].email.t = "number"
    THEN s
    ELSE IF ~EndsWith(EmailOf(credential.payload[1]), EMAIL_DOMAIN)
    THEN [s EXCEPT !.user = Null, !.authError = Some(DomainError)]
    ELSE [s EXCEPT !.user = Some(Profile(credential.payload[1])), !.authError = Null]

\* Variant of handleCredentialResponse that accepts every email that is
\* not empty.
handleCredentialResponse_AnyDomain(s, credential) ==
    IF ~JwtDecodes(credential) \/ credential.payload[1].email.t = "number"
    THEN [s EXCEPT !.authError = Some(SignInFailedError)]
    ELSE IF EmailOf(credential.payload[1]) = <<>>
    THEN [s EXCEPT !.user = Null, !.authError = Some(DomainError)]
    ELSE [s EXCEPT !.user = Some(Profile(credential.payload[1])), !.authError = Null]

handleCredentialResponse(s, credential) ==
    IF ~JwtDecodes(credential)
    THEN [s EXCEPT !.authError = Some(SignInFailedError)]
    ELSE LET decoded == credential.payload[1]
         IN  IF decoded.email.t = "number"
             THEN \* email.endsWith is not a function
                  [s EXCEPT !.authError = Some(SignInFailedError)]
             ELSE LET email == IF decoded.email.t = "undefined" THEN <<>> ELSE decoded.email.v
                  IN  IF ~EndsWith(email, EMAIL_DOMAIN)
                      THEN [s EXCEPT !.user = Null, !.authError = Some(DomainError)]
                      ELSE [s EXCEPT
                              !.user = Some([name |-> IF decoded.name.t = "undefined"
                                                      THEN Str(email) ELSE decoded.name,
                                             email |-> email,
                                             picture |-> decoded.picture]),
                              !.authError = Null]

\* Variant of handleSignOut that also releases the in-flight flag.
handleSignOut_ResetsFlag(s, revoke) ==
    IF s.user # Null /\ s.user[1].email # <<>> /\ s.google /\ revoke = "throws"
    THEN s
    ELSE [s EXCEPT
            !.user = Null,
            !.messages = <<>>,
            !.authError = Null,
            !.isLoading = FALSE,
            !.calls = [k \in 1..Len(@) |-> [@[k] EXCEPT !.crossed = TRUE]]]

\* handleSignOut; when revoke() throws, the handler is left at that line.
handleSignOut(s, revoke) ==
    IF s.user # Null /\ s.user[1].email # <<>> /\ s.google /\ revoke = "throws"
    THEN s
    ELSE [s EXCEPT
            !.user = Null,
            !.messages = <<>>,
            !.authError = Null,
            !.calls = [k \in 1..Len(@) |-> [@[k] EXCEPT !.crossed = TRUE]]]

----------------------------------------------------------------------------
(* The sign-in effect *)

\* Variant of HasMarkup that never finds the markup.
HasMarkup_Never(s) == FALSE

\* loginButtonRef.current.querySelector('iframe'): the provider's markup is
\* in the container.
HasMarkup(s) == s.container = "button"

\* Variant of CatchInit that leaves the latch as the try block set it.
CatchInit_KeepsLatch(s) ==
    [s EXCEPT !.initialized = TRUE, !.authError = Some(InitFailedError),
              !.initFailures = @ + 1]

\* The catch block of initGoogleSignIn.
CatchInit(s) ==
    [s EXCEPT !.initialized = FALSE, !.authError = Some(InitFailedError),
              !.initFailures = @ + 1]

\* Variant of initGoogleSignIn without the test of the client id.
initGoogleSignIn_NoConfigCheck(s, o) ==
    IF s.initialized
    THEN s
    ELSE IF ~s.google
    THEN [s EXCEPT !.effect.retry = TRUE, !.effect.timeoutId = "retry"]
    ELSE IF HasMarkup(s)
    THEN [s EXCEPT !.initialized = TRUE]
    ELSE IF o.initialize = "throws"
    THEN CatchInit(s)
    ELSE LET registered == [s EXCEPT !.initialized = TRUE, !.registrations = @ + 1]
             called == [registered EXCEPT !.renderCalls = @ + 1]
         IN  IF s.container = "none"
             THEN registered
             ELSE CASE o.renderButton = "rendered" ->
                         [called EXCEPT !.container = "button"]
                    [] o.renderButton = "throwsBefore" ->
                         CatchInit([called EXCEPT !.container = "empty"])
                    [] o.renderButton = "throwsAfter" ->
                         CatchInit([called EXCEPT !.container = "button"])

\* Variant of initGoogleSignIn that never sets the latch.
initGoogleSignIn_NoLatch(s, o) ==
    IF s.initialized
    THEN s
    ELSE IF ~s.google
    THEN [s EXCEPT !.effect.retry = TRUE, !.effect.timeoutId = "retry"]
    ELSE IF HasMarkup(s)
    THEN [s EXCEPT !.initialized = TRUE]
    ELSE IF ~Includes(s.clientId, ClientIdSuffix)
    THEN [s EXCEPT !.authError = Some(ConfigError)]
    ELSE IF o.initialize = "throws"
    THEN CatchInit(s)
    ELSE LET registered == [s EXCEPT !.registrations = @ + 1]
             called == [registered EXCEPT !.renderCalls = @ + 1]
         IN  IF s.container = "none"
             THEN registered
             ELSE CASE o.renderButton = "rendered" ->
                         [called EXCEPT !.container = "button"]
                    [] o.renderButton = "throwsBefore" ->
                         CatchInit([called EXCEPT !.container = "empty"])
                    [] o.renderButton = "throwsAfter" ->
                         CatchInit([called EXCEPT !.container = "button"])

\* initGoogleSignIn, with what the provider does when it is called.
initGoogleSignIn(s, o) ==
    IF s.initialized
    THEN s
    ELSE IF ~s.google
    THEN [s EXCEPT !.effect.retry = TRUE, !.effect.timeoutId = "retry"]
    ELSE IF HasMarkup(s)
    THEN [s EXCEPT !.initialized = TRUE]
    ELSE IF ~Includes(s.clientId, ClientIdSuffix)
    THEN [s EXCEPT !.authError = Some(ConfigError)]
    ELSE IF o.initialize = "throws"
    THEN CatchInit(s)
    ELSE LET registered == [s EXCEPT !.initialized = TRUE, !.registrations = @ + 1]
             called == [registered EXCEPT !.renderCalls = @ + 1]
         IN  IF s.container = "none"
             THEN registered
             ELSE CASE o.renderButton = "rendered" ->
                         [called EXCEPT !.container = "button"]
                    [] o.renderButton = "throwsBefore" ->
                         CatchInit([called EXCEPT !.container = "empty"])
                    [] o.renderButton = "throwsAfter" ->
                         CatchInit([called EXCEPT !.container = "button"])

\* The body of the effect: a run has its own checkInterval and timeoutId.
useEffect(s, o) ==
    LET run == [s EXCEPT !.effect.mounted = TRUE, !.effect.interval = FALSE,
                         !.effect.timeoutId = "none"]
    IN  IF s.initialized
        THEN run
        ELSE IF ~isClientIdConfigured(s.clientId) \/ s.container = "none"
        THEN run
        ELSE IF HasMarkup(s)
        THEN [run EXCEPT !.initialized = TRUE]
        ELSE IF s.google
        THEN initGoogleSignIn(run, o)
        ELSE [run EXCEPT !.effect.interval = TRUE, !.effect.deadline = TRUE,
                         !.effect.timeoutId = "deadline"]

\* Variant of cleanup that clears the timeout only.
cleanup_KeepsInterval(s) ==
    [s EXCEPT !.effect =
        [mounted |-> FALSE,
         interval |-> @.interval,
         deadline |-> @.deadline /\ @.timeoutId # "deadline",
         retry |-> @.retry /\ @.timeoutId # "retry",
         timeoutId |-> "none"]]

\* The function the effect returns: clearTimeout(timeoutId) and
\* clearInterval(checkInterval).  A run that returned none has no timer.
cleanup(s) ==
    [s EXCEPT !.effect =
        [mounted |-> FALSE,
         interval |-> FALSE,
         deadline |-> @.deadline /\ @.timeoutId # "deadline",
         retry |-> @.retry /\ @.timeoutId # "retry",
         timeoutId |-> "none"]]

\* The callback of setInterval.
checkIntervalTick(s, o) ==
    IF s.google
    THEN initGoogleSignIn([s EXCEPT !.effect.interval = FALSE], o)
    ELSE s

\* Variant of deadlineTimeout that sets the error whether or not the script
\* is there.
deadlineTimeout_Always(s) ==
    [s EXCEPT !.effect.interval = FALSE,
              !.effect.deadline = FALSE,
              !.effect.timeoutId = IF @ = "deadline" THEN "none" ELSE @,
              !.authError = Some(LoadTimeoutError)]

\* Variant of deadlineTimeout that leaves the interval running.
deadlineTimeout_KeepsPolling(s) ==
    [s EXCEPT !.effect.deadline = FALSE,
              !.effect.timeoutId = IF @ = "deadline" THEN "none" ELSE @,
              !.authError = IF ~s.google THEN Some(LoadTimeoutError) ELSE @]

\* The callback of the setTimeout of 10 seconds.
deadlineTimeout(s) ==
    [s EXCEPT !.effect.interval = FALSE,
              !.effect.deadline = FALSE,
              !.effect.timeoutId = IF @ = "deadline" THEN "none" ELSE @,
              !.authError = IF ~s.google THEN Some(LoadTimeoutError) ELSE @]

\* The callback of the setTimeout of initGoogleSignIn: it runs it again.
retryTimeout(s, o) ==
    initGoogleSignIn([s EXCEPT !.effect.retry = FALSE,
                               !.effect.timeoutId = IF @ = "retry" THEN "none" ELSE @], o)

----------------------------------------------------------------------------
(* Initial state and actions *)

\* No run of the effect is in place and no timer is pending.
NoEffect ==
    [mounted |-> FALSE, interval |-> FALSE, deadline |-> FALSE, retry |-> FALSE,
     timeoutId |-> "none"]

\* The state after the first render of the bundle of a build.
InitWith(env) ==
    /\ clientId = GOOGLE_CLIENT_ID(env)
    /\ chatApiUrl = CHAT_API_URL(env)
    /\ google = FALSE
    /\ initialized = FALSE
    /\ container = "empty"
    /\ effect = NoEffect
    /\ registrations = 0
    /\ renderCalls = 0
    /\ initFailures = 0
    /\ effectRuns = 0
    /\ messages = <<>>
    /\ inputValue = <<>>
    /\ isLoading = FALSE
    /\ error = Null
    /\ authError = Null
    /\ user = Null
    /\ calls = <<>>
    /\ fetchCalls = 0
    /\ acceptedSends = 0
    /\ lastOp = "init"

\* The first render, of any build.
Init == \E env \in Builds : InitWith(env)

\* The page once the script has loaded and the first run of the effect has
\* registered the callback and rendered the button: where the chat starts.
Registered ==
    /\ \E env \in Builds :
          /\ GOOGLE_CLIENT_ID(env) = GoogleClientId
          /\ clientId = GOOGLE_CLIENT_ID(env)
          /\ chatApiUrl = CHAT_API_URL(env)
    /\ google = TRUE
    /\ initialized = TRUE
    /\ container = "button"
    /\ effect = [NoEffect EXCEPT !.mounted = TRUE]
    /\ registrations = 1
    /\ renderCalls = 1
    /\ initFailures = 0
    /\ effectRuns = 1
    /\ messages = <<>>
    /\ inputValue = <<>>
    /\ isLoading = FALSE
    /\ error = Null
    /\ authError = Null
    /\ user = Null
    /\ calls = <<>>
    /\ fetchCalls = 0
    /\ acceptedSends = 0
    /\ lastOp = "useEffect"

\* The provider delivers a credential to the registered callback; it does
\* so whenever it pleases.
OnCredential ==
    \E credential \in Credentials :
        /\ registrations >= 1
        /\ Commit(handleCredentialResponse(State, credential))
        /\ lastOp' = "handleCredentialResponse"
        /\ UNCHANGED <<acceptedSends, effectRuns>>

\* The sign-out button of the user chip, rendered while a session exists.
SignOut ==
    /\ user # Null
    /\ \E revoke \in RevokeOutcomes :
        /\ Commit(handleSignOut(State, revoke))
        /\ lastOp' = IF revoke = "throws" THEN "handleSignOutThrew" ELSE "handleSignOut"
    /\ UNCHANGED <<acceptedSends, effectRuns>>

\* The textarea of the composer, rendered while a session exists and
\* disabled while a request is outstanding (line 395).
TypeInput ==
    /\ user # Null
    /\ ~isLoading
    /\ \E v \in InputValues :
        /\ v # inputValue
        /\ Commit(setInputValue(State, v))
    /\ lastOp' = "setInputValue"
    /\ UNCHANGED <<acceptedSends, effectRuns>>

\* Enter in the textarea or submit of the composer form.  Neither reaches
\* sendMessage while a request is outstanding: the textarea and the button
\* are disabled then (lines 395 and 397).
SendMessage ==
    /\ user # Null
    /\ ~isLoading
    /\ fetchCalls < MaxSends
    /\ Len(messages) + 2 <= MaxMessages
    /\ Len(calls) < MaxCalls
    /\ Commit(sendMessage(State))
    /\ acceptedSends' =
          IF Trim(inputValue) # <<>> /\ ~isLoading THEN acceptedSends + 1 ELSE acceptedSends
    /\ lastOp' = "sendMessage"
    /\ UNCHANGED effectRuns

\* The promise of fetch() settles.
FetchSettles ==
    \E k \in 1..Len(calls) : \E o \in FetchOutcomes :
        /\ calls[k].pc = "fetch"
        /\ Commit(FetchSettled(State, k, o))
        /\ lastOp' = "fetchSettled"
        /\ UNCHANGED <<acceptedSends, effectRuns>>

\* The promise of response.text() settles.
TextSettles ==
    \E k \in 1..Len(calls) : \E o \in TextOutcomes :
        /\ calls[k].pc = "text"
        /\ Commit(TextSettled(State, k, o))
        /\ lastOp' = "textSettled"
        /\ UNCHANGED <<acceptedSends, effectRuns>>

\* The promise of response.json() settles.
JsonSettles ==
    \E k \in 1..Len(calls) : \E o \in JsonOutcomes :
        /\ calls[k].pc = "json"
        /\ Commit(JsonSettled(State, k, o))
        /\ lastOp' = "jsonSettled"
        /\ UNCHANGED <<acceptedSends, effectRuns>>

\* The provider script finishes loading.
ScriptLoads ==
    /\ ~google
    /\ Commit([State EXCEPT !.google = TRUE])
    /\ lastOp' = "scriptLoaded"
    /\ UNCHANGED <<acceptedSends, effectRuns>>

\* React runs the effect: after the first render, and again after it has
\* run its cleanup (remount, Fast Refresh).
EffectRun ==
    /\ ~effect.mounted
    /\ effectRuns < MaxEffectRuns
    /\ \E o \in ProviderOutcomes : Commit(useEffect(State, o))
    /\ effectRuns' = effectRuns + 1
    /\ lastOp' = "useEffect"
    /\ UNCHANGED acceptedSends

\* React runs the cleanup of the effect.
EffectCleanup ==
    /\ effect.mounted
    /\ Commit(cleanup(State))
    /\ lastOp' = "cleanup"
    /\ UNCHANGED <<acceptedSends, effectRuns>>

\* The interval of 100 ms elapses.
PollTick ==
    /\ effect.interval
    /\ \E o \in ProviderOutcomes : Commit(checkIntervalTick(State, o))
    /\ lastOp' = "pollTick"
    /\ UNCHANGED <<acceptedSends, effectRuns>>

\* A pending timeout elapses.
TimeoutFires ==
    /\ \/ /\ effect.deadline
          /\ Commit(deadlineTimeout(State))
       \/ /\ effect.retry
          /\ \E o \in ProviderOutcomes : Commit(retryTimeout(State, o))
    /\ lastOp' = "timeout"
    /\ UNCHANGED <<acceptedSends, effectRuns>>

Next ==
    \/ OnCredential
    \/ SignOut
    \/ TypeInput
    \/ SendMessage
    \/ FetchSettles
    \/ TextSettles
    \/ JsonSettles

\* The chat, from the page with the button rendered (a state AuthSpec
\* reaches: the script loads, the effect runs, the provider returns).
Spec == Registered /\ [][Next]_vars

AuthNext ==
    \/ ScriptLoads
    \/ EffectRun
    \/ EffectCleanup
    \/ PollTick
    \/ TimeoutFires
    \/ OnCredential
    \/ SignOut

\* The authenticator, from the first render.
AuthSpec == Init /\ [][AuthNext]_vars

\* The transport settles every request: each promise a send awaits settles.
FairSpec ==
    /\ Spec
    /\ WF_vars(FetchSettles)
    /\ WF_vars(TextSettles)
    /\ WF_vars(JsonSettles)

----------------------------------------------------------------------------
(* Vocabulary of the properties *)

\* The continuations of sendMessage that can run its catch and finally.
Settlements == { "fetchSettled", "textSettled", "jsonSettled" }

\* The send made in the current state would be accepted.
Acceptable == Trim(inputValue) # <<>> /\ ~isLoading

\* The step is an invocation of sendMessage (or leaves everything as it is).
SendStep == lastOp' = "sendMessage"

\* The step ends the invocation k of sendMessage.
Ends(k) == k \in 1..Len(calls) /\ calls' = RemoveAt(calls, k)

\* Roles and texts of a message list, without the ids.
View(msgs) == [i \in 1..Len(msgs) |-> [role |-> msgs[i].role, text |-> msgs[i].text]]

\* The value of a hexadecimal digit, and the character of a code that
\* JSON.stringify writes as \uXXXX.
HexValue(d) == (CHOOSE i \in 1..Len(HexDigits) : HexDigits[i] = d) - 1
CharOf(code) == IF code < 32 THEN ControlChars[code + 1] ELSE SurrogateUnits[code]

\* What the endpoint reads out of a request body: the inverse of
\* JSON.stringify({ message }) on the bodies the client produces.
RECURSIVE Unescape(_)
Unescape(s) ==
    IF s = <<>> THEN <<>>
    ELSE IF Head(s) = "\\" /\ Len(s) >= 6 /\ s[2] = "u"
    THEN <<CharOf(4096 * HexValue(s[3]) + 256 * HexValue(s[4])
                    + 16 * HexValue(s[5]) + HexValue(s[6]))>>
            \o Unescape(SubSeq(s, 7, Len(s)))
    ELSE IF Head(s) = "\\" /\ Len(s) >= 2
    THEN (IF s[2] = "n" THEN <<"\n">>
          ELSE IF s[2] = "t" THEN <<"\t">>
          ELSE IF s[2] = "r" THEN <<"\r">>
          ELSE IF s[2] = "f" THEN <<"\f">>
          ELSE IF s[2] = "b" THEN <<"U+0008">>
          ELSE <<s[2]>>)
            \o Unescape(Tail(Tail(s)))
    ELSE <<Head(s)>> \o Unescape(Tail(s))

MessageField(body) == Unescape(SubSeq(body, 13, Len(body) - 2))

\* The state in which sendMessage finds the text v in the input.
WithInput(v) == [State EXCEPT !.inputValue = v]

\* sendMessage, were it invoked now, would return at line 205 whatever text
\* it found in the input.
SendRejected == \A v \in InputValues : sendMessage(WithInput(v)) = WithInput(v)

\* A reply the client can show: a string that is not blank.
Usable(reply) == reply.t = "string" /\ Trim(reply.v) # <<>>

----------------------------------------------------------------------------
(* C1: at most one chat request is outstanding in every reachable state,   *)
(* and sendMessage invoked while isLoading is true issues no request,      *)
(* whatever the text: it returns the state it was given.  The composer is  *)
(* disabled while isLoading, so no step invokes it then.                   *)
C1_AtMostOneOutstanding ==
    /\ Len(calls) <= 1
    /\ isLoading => SendRejected
    /\ isLoading => ~ENABLED SendMessage

\* A second send was accepted after the request of the first had resolved,
\* and its request is the only one outstanding.
C1_Witness ==
    /\ lastOp = "sendMessage"
    /\ isLoading
    /\ acceptedSends = 2
    /\ Len(calls) = 1

(* C2: isLoading is true exactly while a request of an accepted send has   *)
(* not reached its end: false initially, false whenever no request is      *)
(* outstanding, false after every resolution.                              *)
C2_FlagIffOutstanding == isLoading <=> (calls # <<>>)

\* A request has been resolved and the flag is down again.
C2_Witness ==
    /\ lastOp \in Settlements
    /\ calls = <<>>
    /\ ~isLoading
    /\ fetchCalls >= 1

(* C3: when every promise settles, each accepted send is followed by a     *)
(* state with isLoading false, and in such a state a send with non-blank   *)
(* text is accepted.                                                       *)
C3_FlagReleased ==
    /\ isLoading ~> ~isLoading
    /\ [](~isLoading /\ Trim(inputValue) # <<>>
            => sendMessage(State).fetchCalls = fetchCalls + 1)

\* A send failed and the next one was accepted: two user messages in a row.
C3_Witness ==
    /\ Len(messages) >= 2
    /\ messages[1].role = "user"
    /\ messages[2].role = "user"
    /\ fetchCalls = 2

(* C4: a send with blank text changes nothing: messages, inputValue,       *)
(* isLoading, error, user and authError stay as they are and no request is *)
(* issued; and while a request is outstanding sendMessage returns the      *)
(* state it was given, whatever the text in the input.                     *)
C4_RejectedSendIsNoOp ==
    /\ [][SendStep /\ Trim(inputValue) = <<>>
            => UNCHANGED <<messages, inputValue, isLoading, error, user,
                           authError, calls, fetchCalls>>]_vars
    /\ [](calls # <<>> => SendRejected)

\* A send of white space only was made while idle.
C4_Witness ==
    /\ lastOp = "sendMessage"
    /\ inputValue # <<>>
    /\ Trim(inputValue) = <<>>
    /\ ~isLoading

(* C5: an accepted send appends, in the same step and while its request    *)
(* is still pending, exactly one user message with the trimmed text at the *)
(* end of the list, empties inputValue, sets isLoading and clears error.   *)
C5_AcceptedSendEffect ==
    [][SendStep /\ Acceptable
        => /\ Len(messages') = Len(messages) + 1
           /\ SubSeq(messages', 1, Len(messages)) = messages
           /\ messages'[Len(messages')].role = "user"
           /\ messages'[Len(messages')].text = Trim(inputValue)
           /\ inputValue' = <<>>
           /\ isLoading'
           /\ error' = Null
           /\ Len(calls') = Len(calls) + 1
           /\ calls'[Len(calls')].pc = "fetch"]_vars

\* A send was accepted right after a failed one: the error is gone.
C5_Witness ==
    /\ lastOp = "sendMessage"
    /\ isLoading
    /\ error = Null
    /\ Len(messages) = 2
    /\ messages[1].role = "user"
    /\ messages[2].role = "user"

(* C6: the number of requests issued equals the number of accepted sends   *)
(* (no request for a rejected send, no retry of a failed one), and the     *)
(* request of an accepted send is a POST whose body carries, as message,   *)
(* the text of the user message appended by that send.                     *)
C6_OneRequestPerAcceptedSend ==
    /\ [](fetchCalls = acceptedSends)
    /\ [][SendStep /\ Acceptable
            => /\ calls' # <<>>
               /\ calls'[Len(calls')].request.method = "POST"
               /\ calls'[Len(calls')].request.url = chatApiUrl
               /\ messages' # <<>>
               /\ MessageField(calls'[Len(calls')].request.body)
                     = messages'[Len(messages')].text
               /\ MessageField(calls'[Len(calls')].request.body) = Trim(inputValue)]_vars

\* Two sends were accepted, and the second request failed without a retry.
C6_Witness ==
    /\ fetchCalls = 2
    /\ acceptedSends = 2
    /\ lastOp = "fetchSettled"
    /\ calls = <<>>
    /\ error # Null

\* The step ends the handling of a non-success HTTP status by the
\* invocation k of sendMessage.
HttpFailureStep(k) == lastOp' = "textSettled" /\ calls[k].pc = "text" /\ Ends(k)

(* C7 as stated: when the handling of a non-success HTTP status ends,      *)
(* isLoading is false, error is the generic message and the message list   *)
(* is exactly the list as it was right after the user message was          *)
(* appended.                                                               *)
C7_HttpFailureKeepsAppended ==
    [][\A k \in 1..Len(calls) :
          HttpFailureStep(k)
            => /\ ~isLoading'
               /\ error' = Some(GenericError)
               /\ messages' = calls[k].appended]_vars

(* C7, amended: when the handling of a non-success HTTP status ends,       *)
(* isLoading is false, error is the generic message and the step appends   *)
(* nothing to the message list: the list is the one left by the append of  *)
(* the user message, or is empty when a sign-out has cleared the history   *)
(* while the request was outstanding.                                      *)
C7_HttpFailure ==
    [][\A k \in 1..Len(calls) :
          HttpFailureStep(k)
            => /\ ~isLoading'
               /\ error' = Some(GenericError)
               /\ messages' = messages
               /\ messages' = IF calls[k].crossed THEN <<>> ELSE calls[k].appended]_vars

\* Input "Hi" answered by a non-success status.
C7_Witness ==
    /\ lastOp = "textSettled"
    /\ View(messages) = <<[role |-> "user", text |-> Hi]>>
    /\ error = Some(GenericError)
    /\ ~isLoading

\* The outcomes a response can have once fetch() has resolved.
FailingStatuses == { st \in Statuses : ~ResponseOk(st) }
OkStatuses == { st \in Statuses : ResponseOk(st) }
UnusableBodies == { o \in JsonOutcomes : o.kind = "object" /\ o.reply.t # "number" /\ ~Usable(o.reply) }

(* C8: from a state in which a request awaits its response, a success      *)
(* response whose reply is absent or blank leads to exactly the state that *)
(* a non-success response leads to.                                        *)
C8_UnusableReplyIsFailure ==
    \A k \in 1..Len(calls) :
        calls[k].pc = "fetch" =>
            \A bad \in FailingStatuses, t \in TextOutcomes, ok \in OkStatuses, o \in UnusableBodies :
                JsonSettled(FetchSettled(State, k, [kind |-> "response", status |-> ok]), k, o)
                    = TextSettled(FetchSettled(State, k, [kind |-> "response", status |-> bad]), k, t)

\* A success response without a usable reply has been handled.
C8_Witness ==
    /\ lastOp = "jsonSettled"
    /\ error = Some(GenericError)
    /\ ~isLoading
    /\ View(messages) = <<[role |-> "user", text |-> Hi]>>

(* C9: when a success response carries a reply that is not blank, the step *)
(* appends exactly one agent message with the trimmed reply after the      *)
(* messages there are, isLoading is false and error is absent; from an     *)
(* empty list, "Hi" answered by "Hello" ends as user "Hi", agent "Hello".  *)
C9_Reply ==
    [][\A k \in 1..Len(calls) : \A o \in JsonOutcomes :
          (/\ lastOp' = "jsonSettled"
           /\ calls[k].pc = "json"
           /\ o.kind = "object"
           /\ Usable(o.reply)
           /\ State' = JsonSettled(State, k, o))
            => /\ Len(messages') = Len(messages) + 1
               /\ SubSeq(messages', 1, Len(messages)) = messages
               /\ messages'[Len(messages')].role = "agent"
               /\ messages'[Len(messages')].text = Trim(o.reply.v)
               /\ \A i \in 1..Len(messages) : messages[i].id # messages'[Len(messages')].id
               /\ ~isLoading'
               /\ error' = Null
               /\ (/\ ~calls[k].crossed
                   /\ View(calls[k].appended) = <<[role |-> "user", text |-> Hi]>>
                   /\ Trim(o.reply.v) = Hello
                   => View(messages') = <<[role |-> "user", text |-> Hi],
                                          [role |-> "agent", text |-> Hello]>>)]_vars

\* The round trip of "Hi" and "Hello".
C9_Witness ==
    /\ lastOp = "jsonSettled"
    /\ View(messages) = <<[role |-> "user", text |-> Hi], [role |-> "agent", text |-> Hello]>>
    /\ ~isLoading
    /\ error = Null

(* C10: whatever makes a send fail (status, body, exception), the error    *)
(* shown afterwards is the same fixed string.                              *)
C10_OneGenericError ==
    /\ [](error \in { Null, Some(GenericError) })
    /\ [][(/\ lastOp' \in Settlements
           /\ Len(calls') < Len(calls)
           /\ messages' = messages)
            => error' = Some(GenericError)]_vars

\* A request that failed on the network has been handled.
C10_Witness ==
    /\ lastOp = "fetchSettled"
    /\ error = Some(GenericError)
    /\ ~isLoading
    /\ calls = <<>>
    /\ fetchCalls = 1

----------------------------------------------------------------------------
(* Vocabulary of the properties of the session *)

\* a is an initial segment of b.
IsPrefix(a, b) == Len(a) <= Len(b) /\ SubSeq(b, 1, Len(a)) = a

\* The step is a run of the credential callback on this credential.
CredentialStep(credential) ==
    /\ lastOp' = "handleCredentialResponse"
    /\ State' = Render(handleCredentialResponse(State, credential))

\* The credentials by what their token holds.
Undecodable == { c \in Credentials : ~JwtDecodes(c) }
Decodable == { c \in Credentials : JwtDecodes(c) /\ c.payload[1].email.t # "number" }
\* s ends with the required domain, said without endsWith.
InDomain(s) == \E pre \in 0..Len(s) : SubSeq(s, pre + 1, Len(s)) = EMAIL_DOMAIN
Qualifying == { c \in Decodable : InDomain(EmailOf(c.payload[1])) }
NotQualifying == Decodable \ Qualifying

(* C11: in every step that is not a sign-out the message list of before is *)
(* an initial segment of the list of after; only a sign-out shortens the   *)
(* list, and a sign-out leaves it empty.                                   *)
C11_AppendOnly ==
    /\ [][lastOp' # "handleSignOut" => IsPrefix(messages, messages')]_vars
    /\ [][Len(messages') < Len(messages) => lastOp' = "handleSignOut"]_vars
    /\ [][lastOp' = "handleSignOut" => messages' = <<>>]_vars

\* A sign-out has emptied a list that two sends had filled.
C11_Witness ==
    /\ lastOp = "handleSignOut"
    /\ messages = <<>>
    /\ acceptedSends = 2
    /\ calls = <<>>

(* C12: after a sign-out the message list is empty, the session is absent, *)
(* and both the authentication error and the transport error are absent.   *)
C12_SignOutClearsAll ==
    [][lastOp' = "handleSignOut"
        => messages' = <<>> /\ user' = Null /\ authError' = Null /\ error' = Null]_vars

(* C13: the local teardown of sign-out (session, history, authentication   *)
(* error) happens whether revoke() returns or throws.                      *)
C13_TeardownDespiteRevoke ==
    [][lastOp' \in { "handleSignOut", "handleSignOutThrew" }
        => user' = Null /\ messages' = <<>> /\ authError' = Null]_vars

(* C15: a credential whose email is absent, empty or outside the domain    *)
(* creates no session and sets a rejection message, and a session that     *)
(* existed before the callback is still there, unchanged.                  *)
C15_RejectionKeepsSession ==
    [][\A c \in NotQualifying :
          CredentialStep(c) => authError' # Null /\ user' = user]_vars

(* C16: a credential whose email ends with the domain creates or replaces  *)
(* the session with exactly that email and clears the authentication       *)
(* error.                                                                  *)
C16_QualifyingCreatesSession ==
    [][\A c \in Qualifying :
          CredentialStep(c)
            => /\ user' # Null
               /\ user'[1].email = c.payload[1].email.v
               /\ authError' = Null]_vars

\* Bob has signed in; no rejection message is shown.
C16_Witness ==
    /\ lastOp = "handleCredentialResponse"
    /\ user # Null
    /\ user[1].email = Bob
    /\ authError = Null

(* C17: a credential that does not decode sets a rejection message, and    *)
(* leaves the session as it was: absent if absent, unchanged if present.   *)
(* The handler ends normally, having recorded the failure in authError.    *)
C17_UndecodableRejected ==
    [][\A c \in Undecodable :
          CredentialStep(c)
            => authError' = Some(SignInFailedError) /\ user' = user]_vars

\* An undecodable credential arrived while Ann was signed in.
C17_Witness ==
    /\ lastOp = "handleCredentialResponse"
    /\ authError = Some(SignInFailedError)
    /\ user # Null
    /\ user[1].email = Ann

(* C18: whenever a session exists, its email ends with '@randstad.no'.     *)
C18_SessionInDomain == user # Null => InDomain(user[1].email)

\* Ann is signed in.
C18_Witness ==
    /\ user # Null
    /\ user[1].email = Ann
    /\ user[1].name = Str(<<"A">>)

----------------------------------------------------------------------------
(* Properties of the sign-in effect, under AuthSpec *)

(* C14 as stated: google.accounts.id.initialize registers the callback at  *)
(* most once, whatever runs of the effect and of its timers take place.    *)
C14_AtMostOneRegistration == registrations <= 1

(* C14, amended: while the latch is set no step registers the callback or  *)
(* renders the button again, and the latch stays set; a registration after *)
(* the first only follows a run of the catch block, which resets the       *)
(* latch.                                                                  *)
C14_OneRegistrationUnlessFailed ==
    /\ [](registrations <= 1 + initFailures)
    /\ [][initialized =>
              /\ initialized'
              /\ registrations' = registrations
              /\ renderCalls' = renderCalls]_vars

\* The effect has run again after a run that registered and rendered, and
\* has done nothing.
C14_Witness ==
    /\ lastOp = "useEffect"
    /\ effectRuns = 2
    /\ initialized
    /\ registrations = 1
    /\ renderCalls = 1
    /\ initFailures = 0

\* The step is the deadline of the wait for the script.
DeadlineStep == lastOp' = "timeout" /\ effect.deadline /\ ~effect'.deadline

\* The step runs the body of the effect or initGoogleSignIn: a run of the
\* effect, a tick of the interval, the timeout that runs it again.
InitializeStep ==
    /\ lastOp' \in { "useEffect", "pollTick", "timeout" }
    /\ ~DeadlineStep

\* A run of the effect in this state gets as far as the provider.
ReadyToRegister ==
    /\ ~initialized
    /\ google
    /\ container = "empty"
    /\ isClientIdConfigured(clientId)
    /\ Includes(clientId, ClientIdSuffix)

(* C19: while the script is absent only the deadline (or the cleanup) ends *)
(* the polling; the deadline with the script still absent stops the        *)
(* polling, sets the authentication error and neither sets the latch nor   *)
(* registers; and a run of the effect once the script is there, with the   *)
(* latch unset, registers the callback unless the provider throws.         *)
C19_DeadlineLeavesLatchUnset ==
    /\ [][effect.interval /\ ~google /\ ~effect'.interval
            => lastOp' \in {"timeout", "cleanup"}]_vars
    /\ [][DeadlineStep /\ ~google
            => /\ ~effect'.interval
               /\ authError' = Some(LoadTimeoutError)
               /\ ~initialized'
               /\ registrations' = registrations
               /\ renderCalls' = renderCalls]_vars
    /\ [][lastOp' = "useEffect" /\ ReadyToRegister
            => \/ registrations' = registrations + 1
               \/ initFailures' = initFailures + 1]_vars

\* The deadline passed without the script; the script loaded afterwards and
\* the next run of the effect registered and rendered.
C19_Witness ==
    /\ lastOp = "useEffect"
    /\ effectRuns = 2
    /\ authError = Some(LoadTimeoutError)
    /\ initialized
    /\ registrations = 1
    /\ container = "button"

(* C20: when initGoogleSignIn is reached (by a run of the effect, or by a  *)
(* timer once the script is there) while the container holds the           *)
(* provider's markup, the latch is set afterwards and neither initialize   *)
(* nor renderButton is called.                                             *)
C20_MarkupSetsLatch ==
    [][InitializeStep /\ container = "button"
         => /\ initialized'
            /\ registrations' = registrations
            /\ renderCalls' = renderCalls]_vars

\* renderButton threw after it had put its markup into the container, so
\* the latch was reset; a rejected credential showed that the callback was
\* registered; the next run of the effect found the markup and set the latch.
C20_Witness ==
    /\ lastOp = "useEffect"
    /\ effectRuns = 2
    /\ initialized
    /\ container = "button"
    /\ authError = Some(DomainError)
    /\ registrations = 1
    /\ renderCalls = 1
    /\ initFailures = 1

\* The client id of the build lacks the suffix of a Google client id.
Nonconforming == ~Includes(clientId, ClientIdSuffix)

(* C21: with a client id that lacks the provider's suffix, initialize is   *)
(* never called, renderButton is never called and the latch is never set;  *)
(* a step that runs the initialisation with the script present sets the    *)
(* configuration error, which differs from the load and rejection          *)
(* messages (for the placeholder id the card carries the not-configured    *)
(* notice instead), and leaves no timer that would run the initialisation  *)
(* again.                                                                  *)
C21_ConfigError ==
    /\ [](Nonconforming => registrations = 0 /\ renderCalls = 0 /\ ~initialized)
    /\ [](ConfigError \notin {InitFailedError, LoadTimeoutError, DomainError,
                              SignInFailedError})
    /\ [][InitializeStep /\ google /\ Nonconforming
            => /\ IF isClientIdConfigured(clientId)
                  THEN authError' = Some(ConfigError)
                  ELSE NotConfiguredNotice(State')
               /\ ~effect'.interval
               /\ ~effect'.retry]_vars

\* The poll found the script and the initialisation stopped at the client id.
C21_Witness ==
    /\ lastOp = "pollTick"
    /\ clientId = OtherClientId
    /\ google
    /\ authError = Some(ConfigError)
    /\ ~initialized
    /\ registrations = 0

----------------------------------------------------------------------------
(* Properties of the session and the chat together *)

(* C22: the sign-in card (with the container of the button) is rendered    *)
(* exactly when no session exists and the chat panel exactly when one      *)
(* does; a send is accepted only while a session exists.                   *)
C22_SurfaceIffSession ==
    /\ []((container # "none") <=> ~isAuthorized(State))
    /\ [](isAuthorized(State) <=> user # Null)
    /\ [][acceptedSends' > acceptedSends => user # Null /\ user' # Null]_vars

\* Ann is signed in, the card is gone and her send was accepted.
C22_Witness ==
    /\ lastOp = "sendMessage"
    /\ user # Null
    /\ container = "none"
    /\ acceptedSends = 1
    /\ isLoading

\* The steps of sendMessage: its invocation and its continuations.
SendSteps == {"sendMessage"} \cup Settlements

(* C23: the credential callback leaves the message list, the in-flight     *)
(* flag and the transport error unchanged; a send, accepted or resolved,   *)
(* leaves the session and the authentication error unchanged; a step that  *)
(* changes both sides is a sign-out.                                       *)
C23_DisjointState ==
    /\ [][lastOp' = "handleCredentialResponse"
            => UNCHANGED <<messages, isLoading, error>>]_vars
    /\ [][lastOp' \in SendSteps => UNCHANGED <<user, authError>>]_vars
    /\ [][(/\ <<messages, isLoading, error>>' # <<messages, isLoading, error>>
           /\ <<user, authError>>' # <<user, authError>>)
            => lastOp' = "handleSignOut"]_vars

\* A credential was rejected while a request was outstanding.
C23_Witness ==
    /\ lastOp = "handleCredentialResponse"
    /\ authError = Some(DomainError)
    /\ messages # <<>>
    /\ isLoading
    /\ calls # <<>>

(* C24: an empty message list (as sign-out leaves it) becomes non-empty    *)
(* only by an accepted send; the completion of a request that was          *)
(* outstanding at the sign-out appends nothing.                            *)
C24_EmptyUntilNextSend ==
    [][messages = <<>> /\ messages' # <<>> => lastOp' = "sendMessage"]_vars

----------------------------------------------------------------------------
(* Further properties of the sign-in effect, under AuthSpec *)

\* The steps taken by the timers of the effect.
TimerSteps == { "pollTick", "timeout" }

(* C25: the cleanup of the effect leaves neither the interval nor a        *)
(* timeout pending; until the effect runs again no timer step is taken,    *)
(* and the registrations, the latch and the authentication error change    *)
(* only by the credential callback or a sign-out.                          *)
C25_CleanupCancelsTimers ==
    /\ [][lastOp' = "cleanup"
            => ~effect'.interval /\ ~effect'.deadline /\ ~effect'.retry]_vars
    /\ [][~effect.mounted => lastOp' \notin TimerSteps]_vars
    /\ [][(\/ lastOp' = "cleanup"
           \/ ~effect.mounted /\ lastOp' \in ({"scriptLoaded"} \cup TimerSteps))
            => UNCHANGED <<registrations, renderCalls, initialized, authError>>]_vars

\* The view was torn down while the wait for the script was pending: the
\* script had not loaded and the deadline had not set its error.
C25_Witness ==
    /\ lastOp = "cleanup"
    /\ clientId = GoogleClientId
    /\ ~google
    /\ effectRuns = 1
    /\ authError = Null
    /\ ~effect.interval
    /\ ~effect.deadline

(* C26: the deadline with the script present changes neither the           *)
(* authentication error nor the latch nor what was registered; the load    *)
(* error of the deadline is set only by the deadline with the script       *)
(* absent.                                                                 *)
C26_DeadlineAfterSuccess ==
    /\ [][DeadlineStep /\ google
            => UNCHANGED <<authError, initialized, registrations, renderCalls>>]_vars
    /\ [][authError' = Some(LoadTimeoutError) /\ authError # Some(LoadTimeoutError)
            => DeadlineStep /\ ~google]_vars

\* The poll found the script, the initialisation registered and rendered,
\* and the deadline elapsed afterwards.
C26_Witness ==
    /\ lastOp = "timeout"
    /\ effectRuns = 1
    /\ initialized
    /\ registrations = 1
    /\ container = "button"
    /\ authError = Null

(* C27: whenever no session exists and the latch is set, the container of  *)
(* the sign-in card holds the rendered button (so also after a sign-in     *)
(* followed by a sign-out).                                                *)
C27_ButtonWhileSignedOut ==
    user = Null /\ initialized => container = "button"

(* C28: a step in which initialize or renderButton throws ends with the    *)
(* latch unset and the load error set; a step sets the latch only when     *)
(* initialize returned and renderButton put the button into the container  *)
(* without a throw, or when the container held markup already.             *)
C28_ThrowResetsLatch ==
    /\ [][initFailures' > initFailures
            => /\ InitializeStep
               /\ ~initialized'
               /\ authError' = Some(InitFailedError)]_vars
    /\ [][~initialized /\ initialized'
            => /\ InitializeStep
               /\ initFailures' = initFailures
               /\ \/ /\ registrations' = registrations + 1
                     /\ renderCalls' = renderCalls + 1
                     /\ container' = "button"
                  \/ /\ container = "button"
                     /\ registrations' = registrations
                     /\ renderCalls' = renderCalls]_vars

\* initialize returned and renderButton threw: the callback is registered,
\* the container is empty, the latch is unset and the error is set.
C28_Witness ==
    /\ lastOp = "useEffect"
    /\ initFailures = 1
    /\ registrations = 1
    /\ renderCalls = 1
    /\ container = "empty"
    /\ ~initialized
    /\ authError = Some(InitFailedError)

----------------------------------------------------------------------------
(* Sign-out while a request is outstanding, under Spec *)

\* A request that was outstanding at a sign-out is still outstanding.
CrossedOutstanding == \E k \in 1..Len(calls) : calls[k].crossed

\* The steps of handleSignOut.
SignOutSteps == { "handleSignOut", "handleSignOutThrew" }

(* C29: a sign-out leaves the in-flight flag, the input buffer and the      *)
(* outstanding requests as they are; while a request that was outstanding  *)
(* at a sign-out has not resolved the flag is true, no send is accepted    *)
(* (also after a new sign-in) and sendMessage returns the state it was     *)
(* given, whatever the text in the input.                                  *)
C29_SignOutKeepsFlag ==
    /\ [][lastOp' \in SignOutSteps
            => /\ UNCHANGED <<isLoading, inputValue, fetchCalls>>
               /\ Len(calls') = Len(calls)
               /\ \A k \in 1..Len(calls) :
                     /\ calls'[k].pc = calls[k].pc
                     /\ calls'[k].request = calls[k].request]_vars
    /\ [](CrossedOutstanding => isLoading)
    /\ [][CrossedOutstanding
            => UNCHANGED <<inputValue, fetchCalls, acceptedSends>>]_vars
    /\ [](CrossedOutstanding => user = Null \/ SendRejected)

\* Ann signed out while her request was outstanding and a user has signed
\* in since: the composer is shown, disabled, over an empty history.
C29_Witness ==
    /\ lastOp = "handleCredentialResponse"
    /\ CrossedOutstanding
    /\ user # Null
    /\ isLoading
    /\ messages = <<>>
    /\ acceptedSends = 1

\* The step signs a user in who was not signed in before it.
NewSession ==
    /\ user' # Null
    /\ user = Null \/ user[1].email # user'[1].email

(* C30: when a session begins (after a sign-out, or by a credential that   *)
(* replaces the session of another user) the message list is empty and no  *)
(* transport error is set: the user sees nothing of an earlier session.    *)
C30_NoCrossSessionState ==
    [][NewSession => messages' = <<>> /\ error' = Null]_vars

====
